---- MODULE Spec2Model ----
(***************************************************************************)
(* dns300: a DNS forwarding proxy.  The model covers the device index      *)
(* (device.NewManager / Manager.Get), the request router                   *)
(* (server.Server.ServeDNS) and the racing exchange engine                 *)
(* (upstream.Client.Exchange with its attempt goroutines, the supervisor   *)
(* goroutine and the receive loop).                                        *)
(*                                                                         *)
(* Go strings are modelled as sequences of one-character strings, so that  *)
(* strings.HasPrefix, strings.Contains, net.SplitHostPort, net.ParseIP and *)
(* net.IP.String are computed character by character.                      *)
(***************************************************************************)
EXTENDS Integers, Sequences, FiniteSets, TLC

----------------------------------------------------------------------------
(* Bounds of the model *)

\* number of query slots (concurrent ServeDNS / Exchange calls)
NumCalls == 2
\* DNS transaction identifiers are drawn from 0..MaxId
MaxId == 1
\* longest upstream list handed to Exchange by a direct caller
MaxUpstreams == 2
\* longest device list / IP list of a generated configuration
MaxDevices == 2
MaxIPs == 2

Calls == 1..NumCalls
Ids == 0..MaxId

----------------------------------------------------------------------------
(* Strings *)

\* strings.HasPrefix(s, prefix)
HasPrefix(s, prefix) ==
    /\ Len(s) >= Len(prefix)
    /\ SubSeq(s, 1, Len(prefix)) = prefix

\* strings.Contains(s, substr)
Contains(s, substr) ==
    \E i \in 1..(Len(s) + 1) :
        /\ i + Len(substr) - 1 <= Len(s)
        /\ SubSeq(s, i, i + Len(substr) - 1) = substr

\* strings.LastIndex(s, c) for a one-character c, 1-based; 0 when absent
LastIndexByte(s, c) ==
    IF \E i \in 1..Len(s) : s[i] = c
    THEN CHOOSE i \in 1..Len(s) : s[i] = c /\ \A j \in (i + 1)..Len(s) : s[j] # c
    ELSE 0

\* strings.IndexByte(s, c), 1-based; 0 when absent
IndexByte(s, c) ==
    IF \E i \in 1..Len(s) : s[i] = c
    THEN CHOOSE i \in 1..Len(s) : s[i] = c /\ \A j \in 1..(i - 1) : s[j] # c
    ELSE 0

DecDigits == <<"0", "1", "2", "3", "4", "5", "6", "7", "8", "9">>
HexDigits == <<"0", "1", "2", "3", "4", "5", "6", "7", "8", "9",
               "a", "b", "c", "d", "e", "f">>
HexUpper == <<"0", "1", "2", "3", "4", "5", "6", "7", "8", "9",
              "A", "B", "C", "D", "E", "F">>

IsDec(c) == \E k \in 1..10 : DecDigits[k] = c
IsHex(c) == \E k \in 1..16 : HexDigits[k] = c \/ HexUpper[k] = c
DecVal(c) == (CHOOSE k \in 1..10 : DecDigits[k] = c) - 1
HexVal(c) == (CHOOSE k \in 1..16 : HexDigits[k] = c \/ HexUpper[k] = c) - 1

\* value of a run of decimal / hexadecimal digits
RECURSIVE ParseDec(_)
ParseDec(s) ==
    IF Len(s) = 0 THEN 0
    ELSE 10 * ParseDec(SubSeq(s, 1, Len(s) - 1)) + DecVal(s[Len(s)])

RECURSIVE ParseHex(_)
ParseHex(s) ==
    IF Len(s) = 0 THEN 0
    ELSE 16 * ParseHex(SubSeq(s, 1, Len(s) - 1)) + HexVal(s[Len(s)])

\* decimal / lower-case hexadecimal text of a number, no leading zeros
RECURSIVE FormatDec(_)
FormatDec(n) ==
    IF n < 10 THEN <<DecDigits[n + 1]>>
    ELSE FormatDec(n \div 10) \o <<DecDigits[(n % 10) + 1]>>

RECURSIVE FormatHex(_)
FormatHex(n) ==
    IF n < 16 THEN <<HexDigits[n + 1]>>
    ELSE FormatHex(n \div 16) \o <<HexDigits[(n % 16) + 1]>>

----------------------------------------------------------------------------
(* net.IP: a sequence of bytes; the nil IP is the empty sequence *)

NilIP == << >>

V4InV6Prefix == <<0, 0, 0, 0, 0, 0, 0, 0, 0, 0, 255, 255>>
Zero14 == <<0, 0, 0, 0, 0, 0, 0, 0, 0, 0, 0, 0, 0, 0>>

\* the fields of s separated by the character sep
RECURSIVE SplitOn(_, _)
SplitOn(s, sep) ==
    LET i == IndexByte(s, sep)
    IN  IF i = 0 THEN <<s>>
        ELSE <<SubSeq(s, 1, i - 1)>> \o SplitOn(SubSeq(s, i + 1, Len(s)), sep)

\* one dotted-decimal field: 1..3 digits, no leading zero, at most 255
ValidOctet(f) ==
    /\ Len(f) >= 1
    /\ Len(f) <= 3
    /\ \A i \in 1..Len(f) : IsDec(f[i])
    /\ (Len(f) > 1 => f[1] # "0")
    /\ ParseDec(f) <= 255

\* the four bytes of a dotted-decimal IPv4 text, << >> when it does not parse
ParseIPv4(s) ==
    LET fs == SplitOn(s, ".")
    IN  IF Len(fs) = 4 /\ \A i \in 1..4 : ValidOctet(fs[i])
        THEN [i \in 1..4 |-> ParseDec(fs[i])]
        ELSE << >>

V4Mapped == <<":", ":", "f", "f", "f", "f", ":">>
V4MappedUpper == <<":", ":", "F", "F", "F", "F", ":">>

\* net.ParseIP on the forms the configurations use: dotted-decimal IPv4,
\* "::ffff:a.b.c.d", "::" and "::h" with one group of 1..4 hex digits.
\* Like the library it returns the 16-byte form for IPv4, and the nil IP
\* for a text that does not parse (zones, leading zeros, garbage).
ParseIP(s) ==
    IF Contains(s, <<":">>)
    THEN IF (HasPrefix(s, V4Mapped) \/ HasPrefix(s, V4MappedUpper))
            /\ Contains(s, <<".">>)
         THEN LET b == ParseIPv4(SubSeq(s, 8, Len(s)))
              IN  IF b = << >> THEN NilIP ELSE V4InV6Prefix \o b
         ELSE IF HasPrefix(s, <<":", ":">>)
                 /\ Len(s) <= 6
                 /\ \A i \in 3..Len(s) : IsHex(s[i])
              THEN LET h == ParseHex(SubSeq(s, 3, Len(s)))
                   IN  Zero14 \o <<h \div 256, h % 256>>
              ELSE NilIP
    ELSE LET b == ParseIPv4(s)
         IN  IF b = << >> THEN NilIP ELSE V4InV6Prefix \o b

\* net.IP.String: dotted decimal for a 4-byte or IPv4-mapped address,
\* otherwise the compressed IPv6 text (the model's IPv6 addresses have
\* only their last group set)
IPString(ip) ==
    IF Len(ip) = 0 THEN <<"<", "n", "i", "l", ">">>
    ELSE LET v4 == IF Len(ip) = 4 THEN ip
                   ELSE IF Len(ip) = 16 /\ SubSeq(ip, 1, 12) = V4InV6Prefix
                        THEN SubSeq(ip, 13, 16)
                        ELSE << >>
         IN  IF v4 # << >>
             THEN FormatDec(v4[1]) \o <<".">> \o FormatDec(v4[2]) \o <<".">>
                  \o FormatDec(v4[3]) \o <<".">> \o FormatDec(v4[4])
             ELSE LET h == ip[15] * 256 + ip[16]
                  IN  IF h = 0 THEN <<":", ":">>
                      ELSE <<":", ":">> \o FormatHex(h)

----------------------------------------------------------------------------
(* Configuration (config.Config) and the device index (device.Manager) *)

\* texts used as client / device IP addresses
IP_1111 == <<"1", ".", "1", ".", "1", ".", "1">>
IP_2222 == <<"2", ".", "2", ".", "2", ".", "2">>
IP_3333 == <<"3", ".", "3", ".", "3", ".", "3">>
IP_Mapped1111 == <<":", ":", "f", "f", "f", "f", ":", "1", ".", "1", ".", "1", ".", "1">>
IP_LeadingZero == <<"0", "1", ".", "1", ".", "1", ".", "1">>
IP_V6Upper == <<":", ":", "A">>
IP_V6Lower == <<":", ":", "a">>

\* upstream identifiers
U_9999 == <<"9", ".", "9", ".", "9", ".", "9">>
U_8888p == <<"8", ".", "8", ".", "8", ".", "8", ":", "5", "3">>
U_Https == <<"h", "t", "t", "p", "s", ":", "/", "/", "d", "/", "q">>
U_Http == <<"h", "t", "t", "p", ":", "/", "/", "d">>
U_V6 == <<"2", "0", "0", "1", ":", ":", "1">>

\* config.Device.TLSVerify is a *bool: absent (nil), true or false
TLSVerifyOpts == {"absent", "true", "false"}

\* the nil *device.Device
NoDevice == [ptr |-> 0, Name |-> "", Upstreams |-> << >>, TLSVerify |-> FALSE]

\* the *device.Device NewManager allocates for the k-th configured device:
\* tls-verify defaults to true when absent
MakeDevice(k, d) ==
    [ptr |-> k,
     Name |-> d.Name,
     Upstreams |-> d.Upstreams,
     TLSVerify |-> IF d.TLSVerify # "absent" THEN d.TLSVerify = "true" ELSE TRUE]

\* variant: an IP already in the map keeps its first device
MapPut_First(m, key, dev) ==
    [k \in (DOMAIN m) \cup {key} |-> IF k \in DOMAIN m THEN m[k] ELSE dev]

\* m.ipMap[key] = dev
MapPut(m, key, dev) ==
    [k \in (DOMAIN m) \cup {key} |-> IF k = key THEN dev ELSE m[k]]

\* the inner loop of NewManager over d.IPs, from position j on
RECURSIVE AddIPs(_, _, _, _)
AddIPs(m, dev, ips, j) ==
    IF j > Len(ips) THEN m
    ELSE LET ip == ParseIP(ips[j])
         IN  IF ip # NilIP
             THEN AddIPs(MapPut(m, IPString(ip), dev), dev, ips, j + 1)
             ELSE AddIPs(m, dev, ips, j + 1)

\* the outer loop of NewManager over cfg.Devices, from position k on
RECURSIVE AddDevices(_, _, _)
AddDevices(m, devices, k) ==
    IF k > Len(devices) THEN m
    ELSE AddDevices(AddIPs(m, MakeDevice(k, devices[k]), devices[k].IPs, 1),
                    devices, k + 1)

\* device.NewManager: the ipMap built from the configuration
NewManager(c) == AddDevices(<< >>, c.Devices, 1)

\* device.Manager.Get
Get(m, ip) ==
    IF ip = NilIP THEN NoDevice
    ELSE IF IPString(ip) \in DOMAIN m THEN m[IPString(ip)] ELSE NoDevice


----------------------------------------------------------------------------
(* Messages, errors and results *)

\* a *dns.Msg: present = FALSE is the nil message; from names the attempt
\* <<call, position>> whose adapter produced it (<<0, 0>> for a message the
\* router built itself)
NoMsg == [present |-> FALSE, Id |-> 0, from |-> <<0, 0>>, Rcode |-> "none"]
UpstreamMsg(id, q, i) ==
    [present |-> TRUE, Id |-> id, from |-> <<q, i>>, Rcode |-> "NOERROR"]

\* an error value: present = FALSE is the nil error
NoErr == [present |-> FALSE, kind |-> "none", from |-> <<0, 0>>]
AttemptErr(q, i) == [present |-> TRUE, kind |-> "attempt", from |-> <<q, i>>]
ErrNoUpstreams == [present |-> TRUE, kind |-> "no upstreams provided", from |-> <<0, 0>>]
ErrAllFailed == [present |-> TRUE, kind |-> "all upstreams failed", from |-> <<0, 0>>]
ErrCtx == [present |-> TRUE, kind |-> "context canceled", from |-> <<0, 0>>]

\* the result struct of Exchange
Result(m, e) == [msg |-> m, err |-> e]
NoResult == Result(NoMsg, NoErr)

----------------------------------------------------------------------------
(* upstream.Client: the two long-lived DoH HTTP clients *)

\* upstream.NewClient
NewClient ==
    [httpClientVerify |-> [InsecureSkipVerify |-> FALSE],
     httpClientInsecure |-> [InsecureSkipVerify |-> TRUE]]

\* variant: the verifying client is used whatever the flag
SelectClient_Verify(c, tlsVerify) == c.httpClientVerify

\* queryDoH: the pre-initialized client selected by the verification flag
SelectClient(c, tlsVerify) ==
    IF ~tlsVerify THEN c.httpClientInsecure ELSE c.httpClientVerify

\* the earlier variant of the package: one shared client, strict
NewClientCloning == [httpClient |-> [InsecureSkipVerify |-> FALSE]]

\* http.Transport.Clone: a copy, with its own TLSClientConfig
CloneTransport(t) == [InsecureSkipVerify |-> t.InsecureSkipVerify]

\* queryDoH of the earlier variant: the shared client, or a new client on a
\* clone of its transport with verification disabled; the pair is the client
\* used and the shared client afterwards
SelectClientCloning(c, tlsVerify) ==
    IF ~tlsVerify
    THEN [used |-> [CloneTransport(c.httpClient) EXCEPT !.InsecureSkipVerify = TRUE],
          shared |-> c]
    ELSE [used |-> c.httpClient, shared |-> c]

----------------------------------------------------------------------------
(* Exchange: dispatch of one attempt *)

S_Https == <<"h", "t", "t", "p", "s", ":", "/", "/">>
S_Http == <<"h", "t", "t", "p", ":", "/", "/">>
S_Port53 == <<":", "5", "3">>

\* the attempt goes to queryDoH
IsDoH(u) == HasPrefix(u, S_Https) \/ HasPrefix(u, S_Http)

\* the address handed to queryUDP
ClassicAddr(u) == IF ~Contains(u, <<":">>) THEN u \o S_Port53 ELSE u

\* what an adapter may return.  queryDoH returns either (nil, err) or
\* (msg, nil); queryUDP returns whatever the DNS client returns, a message
\* and an error independently of each other.
AdapterResults(adapter, q, i) ==
    LET ok == {Result(UpstreamMsg(id, q, i), NoErr) : id \in Ids}
        failed == {Result(NoMsg, AttemptErr(q, i))}
        both == {Result(UpstreamMsg(0, q, i), AttemptErr(q, i))}
    IN  IF adapter = "doh" THEN ok \cup failed
        ELSE ok \cup failed \cup both \cup {NoResult}

\* variant: the goroutine starts with one adapter call already made
NewAttempt_Retry(u) ==
    [pc |-> "query", u |-> u, adapter |-> "none", target |-> << >>,
     insecure |-> FALSE, calls |-> 1, res |-> NoResult, sent |-> FALSE]

\* an attempt goroutine before it has run
NewAttempt(u) ==
    [pc |-> "query", u |-> u, adapter |-> "none", target |-> << >>,
     insecure |-> FALSE, calls |-> 0, res |-> NoResult, sent |-> FALSE]

\* variant: the empty list is not checked for
NoUpstreamsGiven_Never(upstreams) == FALSE

\* len(upstreams) == 0
NoUpstreamsGiven(upstreams) == Len(upstreams) = 0

\* capacity of resultChan
ChanCap(upstreams) == Len(upstreams)

\* variant: any result carrying a message counts as a success
IsSuccess_AnyMsg(res) == res.msg.present

\* variant: any result without an error counts as a success
IsSuccess_NoErr(res) == ~res.err.present

\* res.err == nil && res.msg != nil
IsSuccess(res) == ~res.err.present /\ res.msg.present

\* variant: the first error is kept
UpdateLastErr_First(prev, res) == IF prev.present THEN prev ELSE res.err

\* "if res.err != nil { lastErr = res.err }"
UpdateLastErr(prev, res) == IF res.err.present THEN res.err ELSE prev

\* variant: no deferred cancel()
DeferCancel_Missing(done) == done

\* the state of the call's context once the deferred cancel() has run
DeferCancel(done) == TRUE

\* variant: wg.Wait() never returns
WaitDone_Never(attempts) == FALSE

\* variant: the supervisor stops waiting once any one attempt has exited
WaitDone_Any(attempts) == \E i \in 1..Len(attempts) : attempts[i].pc = "exited"

\* wg.Wait() returns: every attempt goroutine has run wg.Done()
WaitDone(attempts) == \A i \in 1..Len(attempts) : attempts[i].pc = "exited"


----------------------------------------------------------------------------
(* The request router's helpers *)

\* net.SplitHostPort: [host, err]; err = TRUE for a text without a port, with
\* too many colons or with misplaced brackets
SplitHostPort(hostport) ==
    LET i == LastIndexByte(hostport, ":")
        fail == [host |-> << >>, err |-> TRUE]
    IN  IF i = 0 THEN fail
        ELSE IF hostport[1] = "["
        THEN LET end == IndexByte(hostport, "]")
             IN  IF end = 0 THEN fail
                 ELSE IF end = Len(hostport) THEN fail
                 ELSE IF end + 1 # i THEN fail
                 ELSE IF Contains(SubSeq(hostport, 2, Len(hostport)), <<"[">>) THEN fail
                 ELSE IF Contains(SubSeq(hostport, end + 1, Len(hostport)), <<"]">>) THEN fail
                 ELSE [host |-> SubSeq(hostport, 2, end - 1), err |-> FALSE]
        ELSE LET host == SubSeq(hostport, 1, i - 1)
             IN  IF Contains(host, <<":">>) THEN fail
                 ELSE IF Contains(hostport, <<"[">>) \/ Contains(hostport, <<"]">>) THEN fail
                 ELSE [host |-> host, err |-> FALSE]

\* variant: a device without upstreams falls back to the global list
SelectUpstreams_Fallback(dev, c) ==
    IF dev # NoDevice /\ Len(dev.Upstreams) > 0
    THEN [upstreams |-> dev.Upstreams, tlsVerify |-> dev.TLSVerify]
    ELSE [upstreams |-> c.Upstreams, tlsVerify |-> TRUE]

\* variant: the device's tlsVerify is not taken over
SelectUpstreams_KeepVerify(dev, c) ==
    IF dev # NoDevice
    THEN [upstreams |-> dev.Upstreams, tlsVerify |-> TRUE]
    ELSE [upstreams |-> c.Upstreams, tlsVerify |-> TRUE]

\* ServeDNS, "Determine Upstreams": the device's settings when a device was
\* found, the global list with tlsVerify = true otherwise
SelectUpstreams(dev, c) ==
    IF dev # NoDevice
    THEN [upstreams |-> dev.Upstreams, tlsVerify |-> dev.TLSVerify]
    ELSE [upstreams |-> c.Upstreams, tlsVerify |-> TRUE]

\* m.SetRcode(r, rcode) on a new message: a reply to r carrying r's Id
SetRcode(r, rcode) ==
    [present |-> TRUE, Id |-> r.Id, from |-> <<0, 0>>, Rcode |-> rcode]

\* variant: the upstream's response is written as received
UseRequestId_Kept(resp, r) == resp

\* resp.Id = r.Id
UseRequestId(resp, r) == [resp EXCEPT !.Id = r.Id]

----------------------------------------------------------------------------
(* Inputs *)

\* remote addresses of inbound queries (w.RemoteAddr().String())
RA_1111 == IP_1111 \o <<":", "9">>
RA_2222 == IP_2222 \o <<":", "9">>
RA_3333 == IP_3333 \o <<":", "9">>
RA_V6 == <<"[">> \o IP_V6Lower \o <<"]", ":", "9">>
RA_NoPort == <<"@">>
RemoteAddrs == {RA_1111, RA_2222, RA_3333, RA_V6, RA_NoPort}

\* all sequences over S of length at most n
SeqsUpTo(S, n) == UNION {[1..k -> S] : k \in 0..n}

\* the configuration the proxy is started with: an unparsable IP before
\* parsable ones, one IP declared by two devices in two spellings, every
\* form of tls-verify, a device without upstreams
Cfg1 ==
    [Upstreams |-> <<U_9999>>,
     Devices |-> <<
        [Name |-> "a", IPs |-> <<IP_LeadingZero, IP_1111, IP_V6Upper>>,
         Upstreams |-> <<U_Https>>, TLSVerify |-> "absent"],
        [Name |-> "b", IPs |-> <<IP_Mapped1111>>,
         Upstreams |-> <<U_Http, U_V6>>, TLSVerify |-> "false"],
        [Name |-> "c", IPs |-> <<IP_2222>>,
         Upstreams |-> << >>, TLSVerify |-> "true"] >>]
Configs == {Cfg1}

\* generated device lists, for the device index on its own: every list of
\* IP texts per device; tls-verify takes its three forms in turn along the
\* list
IPPool == {IP_1111, IP_Mapped1111, IP_LeadingZero}
TLSVerifyInTurn == <<"absent", "false", "true">>
GenDevice(k, ips) ==
    [Name |-> "d", IPs |-> ips, Upstreams |-> <<U_9999>>,
     TLSVerify |-> TLSVerifyInTurn[((k - 1) % 3) + 1]]
GenConfigs ==
    {[Upstreams |-> <<U_9999>>,
      Devices |-> [k \in DOMAIN ipss |-> GenDevice(k, ipss[k])]] :
        ipss \in SeqsUpTo(SeqsUpTo(IPPool, MaxIPs), MaxDevices)}
LookupIPs == {NilIP, <<1, 1, 1, 1>>, ParseIP(IP_1111), ParseIP(IP_2222)}

\* upstream lists of a direct caller of Exchange
UpstreamPool == {U_9999, U_8888p, U_Https, U_V6}
UpstreamLists == SeqsUpTo(UpstreamPool, MaxUpstreams)

----------------------------------------------------------------------------
(* State *)

VARIABLES
    cfg,         \* the loaded *config.Config
    ipMap,       \* device.Manager.ipMap
    client,      \* the *upstream.Client
    lookup,      \* the last Manager.Get made on the index alone
    pc,          \* per call: position of the caller (ServeDNS or a direct caller)
    query,       \* per call: the inbound query r and its remote address
    written,     \* per call: the messages written to the client with w.WriteMsg
    xstate,      \* per call: Exchange not called / running / returned
    xargs,       \* per call: the upstreams and tlsVerify arguments of Exchange
    att,         \* per call: the attempt goroutines, by position in upstreams
    resultChan,  \* per call: the buffered contents of resultChan
    closed,      \* per call: resultChan is closed
    ctxDone,     \* per call: the context derived by WithCancel is done
    parentDone,  \* per call: the caller's context is done
    sup,         \* per call: the supervisor goroutine
    lastErr,     \* per call: lastErr of the receive loop
    ret,         \* per call: what Exchange returned
    observed,    \* per call: the results the receive loop has received, in order
    earlyCancel, \* per call: the caller's context was done before any attempt finished
    panicked     \* a goroutine sent on, or closed, a closed channel

configVars == <<cfg, ipMap, client>>
callerVars == <<pc, query, written>>
exchVars == <<xstate, xargs, att, resultChan, closed, ctxDone, parentDone,
              sup, lastErr, ret, observed, earlyCancel, panicked>>
vars == <<cfg, ipMap, client, lookup, pc, query, written, xstate, xargs, att,
          resultChan, closed, ctxDone, parentDone, sup, lastErr, ret, observed,
          earlyCancel, panicked>>

NoLookup == [done |-> FALSE, ip |-> NilIP, res |-> NoDevice]
NoQuery == [Id |-> 0, raddr |-> << >>]
NoArgs == [upstreams |-> << >>, tlsVerify |-> FALSE]

\* no query has arrived and Exchange has not been called
CallsInit ==
    /\ lookup = NoLookup
    /\ pc = [q \in Calls |-> "idle"]
    /\ query = [q \in Calls |-> NoQuery]
    /\ written = [q \in Calls |-> << >>]
    /\ xstate = [q \in Calls |-> "none"]
    /\ xargs = [q \in Calls |-> NoArgs]
    /\ att = [q \in Calls |-> << >>]
    /\ resultChan = [q \in Calls |-> << >>]
    /\ closed = [q \in Calls |-> FALSE]
    /\ ctxDone = [q \in Calls |-> FALSE]
    /\ parentDone = [q \in Calls |-> FALSE]
    /\ sup = [q \in Calls |-> "none"]
    /\ lastErr = [q \in Calls |-> NoErr]
    /\ ret = [q \in Calls |-> NoResult]
    /\ observed = [q \in Calls |-> << >>]
    /\ earlyCancel = [q \in Calls |-> FALSE]
    /\ panicked = FALSE

\* main: config loaded, NewManager, NewClient, NewServer done
Init ==
    /\ cfg \in Configs
    /\ ipMap = NewManager(cfg)
    /\ client = NewClient
    /\ CallsInit


----------------------------------------------------------------------------
(* upstream.Client.Exchange *)

\* variant: one cancel function shared by all calls
CancelScope_AllCalls(q) == Calls

\* the calls whose derived context the cancel function of call q cancels:
\* ctx and cancel are locals of the call
CancelScope(q) == {q}

\* Exchange returns (m, e); the deferred cancel() runs
ExchangeReturn(q, m, e) ==
    /\ xstate' = [xstate EXCEPT ![q] = "returned"]
    /\ ret' = [ret EXCEPT ![q] = Result(m, e)]
    /\ ctxDone' = [p \in Calls |-> IF p \in CancelScope(q)
                                   THEN DeferCancel(ctxDone[p])
                                   ELSE ctxDone[p]]

\* Exchange is entered: the empty-list check, then resultChan, the derived
\* context, one goroutine per upstream and the supervisor goroutine
ExchangeEnter(q, upstreams, tlsVerify) ==
    /\ xargs' = [xargs EXCEPT ![q] = [upstreams |-> upstreams, tlsVerify |-> tlsVerify]]
    /\ IF NoUpstreamsGiven(upstreams)
       THEN /\ xstate' = [xstate EXCEPT ![q] = "returned"]
            /\ ret' = [ret EXCEPT ![q] = Result(NoMsg, ErrNoUpstreams)]
            /\ UNCHANGED <<att, sup>>
       ELSE /\ xstate' = [xstate EXCEPT ![q] = "running"]
            /\ att' = [att EXCEPT ![q] = [i \in 1..Len(upstreams) |-> NewAttempt(upstreams[i])]]
            /\ sup' = [sup EXCEPT ![q] = "waiting"]
            /\ UNCHANGED ret
    /\ UNCHANGED <<resultChan, closed, ctxDone, parentDone, lastErr, observed, earlyCancel, panicked>>

\* variant: the normalized identifier is stored back into the list
UpstreamsAfterDispatch_InPlace(upstreams, i) ==
    [upstreams EXCEPT ![i] = IF IsDoH(@) THEN @ ELSE ClassicAddr(@)]

\* the caller's list once attempt i has dispatched: "u = u + ":53"" assigns
\* to the goroutine's own parameter u, a copy of the entry, so the list is
\* as it was
UpstreamsAfterDispatch(upstreams, i) == upstreams

\* an attempt goroutine picks its adapter, calls it once and gets its result
AttemptQuery(q, i) ==
    /\ xstate[q] # "none"
    /\ i \in 1..Len(att[q])
    /\ att[q][i].pc = "query"
    /\ LET u == att[q][i].u
           adapter == IF IsDoH(u) THEN "doh" ELSE "classic"
       IN  \E r \in AdapterResults(adapter, q, i) :
              att' = [att EXCEPT ![q][i] =
                        [@ EXCEPT !.pc = "send",
                                  !.adapter = adapter,
                                  !.target = IF adapter = "doh" THEN u ELSE ClassicAddr(u),
                                  !.insecure = IF adapter = "doh"
                                               THEN SelectClient(client, xargs[q].tlsVerify).InsecureSkipVerify
                                               ELSE FALSE,
                                  !.calls = @ + 1,
                                  !.res = r]]
    /\ xargs' = [xargs EXCEPT ![q].upstreams = UpstreamsAfterDispatch(@, i)]
    /\ UNCHANGED <<configVars, lookup, callerVars, xstate, resultChan, closed,
                   ctxDone, parentDone, sup, lastErr, ret, observed, earlyCancel, panicked>>

\* the select of an attempt takes "resultChan <- result": the buffer has room
\* (a send on a closed channel panics); then the deferred wg.Done()
AttemptSend(q, i) ==
    /\ i \in 1..Len(att[q])
    /\ att[q][i].pc = "send"
    /\ Len(resultChan[q]) < ChanCap(xargs[q].upstreams)
    /\ IF closed[q]
       THEN /\ panicked' = TRUE
            /\ UNCHANGED resultChan
       ELSE /\ resultChan' = [resultChan EXCEPT ![q] = Append(@, att[q][i].res)]
            /\ UNCHANGED panicked
    /\ att' = [att EXCEPT ![q][i] = [@ EXCEPT !.pc = "exited", !.sent = ~closed[q]]]
    /\ UNCHANGED <<configVars, lookup, callerVars, xstate, xargs, closed, ctxDone,
                   parentDone, sup, lastErr, ret, observed, earlyCancel>>

\* the select of an attempt takes "<-ctx.Done()"; then the deferred wg.Done()
AttemptSkip(q, i) ==
    /\ i \in 1..Len(att[q])
    /\ att[q][i].pc = "send"
    /\ ctxDone[q]
    /\ att' = [att EXCEPT ![q][i] = [@ EXCEPT !.pc = "exited"]]
    /\ UNCHANGED <<configVars, lookup, callerVars, xstate, xargs, resultChan, closed,
                   ctxDone, parentDone, sup, lastErr, ret, observed, earlyCancel, panicked>>

\* the supervisor goroutine: wg.Wait() returns, close(resultChan)
SupervisorClose(q) ==
    /\ sup[q] = "waiting"
    /\ WaitDone(att[q])
    /\ sup' = [sup EXCEPT ![q] = "closed"]
    /\ closed' = [closed EXCEPT ![q] = TRUE]
    /\ panicked' = (panicked \/ closed[q])
    /\ UNCHANGED <<configVars, lookup, callerVars, xstate, xargs, att, resultChan,
                   ctxDone, parentDone, lastErr, ret, observed, earlyCancel>>

\* the receive loop takes "res, ok := <-resultChan" with a buffered result
ExchangeRecv(q) ==
    /\ xstate[q] = "running"
    /\ Len(resultChan[q]) > 0
    /\ LET res == Head(resultChan[q])
       IN  /\ resultChan' = [resultChan EXCEPT ![q] = Tail(@)]
           /\ observed' = [observed EXCEPT ![q] = Append(@, res)]
           /\ IF IsSuccess(res)
              THEN /\ ExchangeReturn(q, res.msg, NoErr)
                   /\ UNCHANGED lastErr
              ELSE /\ lastErr' = [lastErr EXCEPT ![q] = UpdateLastErr(@, res)]
                   /\ UNCHANGED <<xstate, ret, ctxDone>>
    /\ UNCHANGED <<configVars, lookup, callerVars, xargs, att, closed, parentDone,
                   sup, earlyCancel, panicked>>

\* the receive loop takes "res, ok := <-resultChan" with ok = false
ExchangeRecvClosed(q) ==
    /\ xstate[q] = "running"
    /\ Len(resultChan[q]) = 0
    /\ closed[q]
    /\ ExchangeReturn(q, NoMsg, IF lastErr[q].present THEN lastErr[q] ELSE ErrAllFailed)
    /\ UNCHANGED <<configVars, lookup, callerVars, xargs, att, resultChan, closed,
                   parentDone, sup, lastErr, observed, earlyCancel, panicked>>

\* the receive loop takes "<-ctx.Done()"
ExchangeCtxDone(q) ==
    /\ xstate[q] = "running"
    /\ ctxDone[q]
    /\ ExchangeReturn(q, NoMsg, ErrCtx)
    /\ UNCHANGED <<configVars, lookup, callerVars, xargs, att, resultChan, closed,
                   parentDone, sup, lastErr, observed, earlyCancel, panicked>>

----------------------------------------------------------------------------
(* server.Server.ServeDNS *)

\* call slots are taken in order
SlotFree(q) == pc[q] = "idle" /\ \A p \in Calls : p < q => pc[p] # "idle"

\* ServeDNS up to the call of Exchange: client IP, device lookup, upstreams
ServeDNSRecv(q, raddr, id) ==
    /\ SlotFree(q)
    /\ query' = [query EXCEPT ![q] = [Id |-> id, raddr |-> raddr]]
    /\ LET sp == SplitHostPort(raddr)
       IN  IF sp.err
           THEN /\ pc' = [pc EXCEPT ![q] = "dropped"]
                /\ UNCHANGED exchVars
           ELSE LET clientIP == ParseIP(sp.host)
                    dev == Get(ipMap, clientIP)
                    sel == SelectUpstreams(dev, cfg)
                IN  /\ pc' = [pc EXCEPT ![q] = "racing"]
                    /\ ExchangeEnter(q, sel.upstreams, sel.tlsVerify)
    /\ UNCHANGED <<configVars, lookup, written>>

\* ServeDNS after Exchange returned: SERVFAIL on error, else the response
\* with the request's Id
ServeDNSReply(q) ==
    /\ pc[q] = "racing"
    /\ xstate[q] = "returned"
    /\ written' = [written EXCEPT ![q] =
                     Append(@, IF ret[q].err.present
                               THEN SetRcode(query[q], "SERVFAIL")
                               ELSE UseRequestId(ret[q].msg, query[q]))]
    /\ pc' = [pc EXCEPT ![q] = "responded"]
    /\ UNCHANGED <<configVars, lookup, query, exchVars>>

----------------------------------------------------------------------------
(* A direct caller of Exchange with a context it may cancel *)

CallExchange(q, upstreams, tlsVerify) ==
    /\ SlotFree(q)
    /\ pc' = [pc EXCEPT ![q] = "called"]
    /\ ExchangeEnter(q, upstreams, tlsVerify)
    /\ UNCHANGED <<configVars, lookup, query, written>>

\* the caller's context is cancelled, or its deadline fires, during the call
CancelCaller(q) ==
    /\ pc[q] = "called"
    /\ xstate[q] = "running"
    /\ ~parentDone[q]
    /\ parentDone' = [parentDone EXCEPT ![q] = TRUE]
    /\ ctxDone' = [ctxDone EXCEPT ![q] = TRUE]
    /\ earlyCancel' = [earlyCancel EXCEPT ![q] = \A i \in DOMAIN att[q] : att[q][i].pc = "query"]
    /\ UNCHANGED <<configVars, lookup, callerVars, xstate, xargs, att, resultChan,
                   closed, sup, lastErr, ret, observed, panicked>>

----------------------------------------------------------------------------
(* A lookup on the device index alone *)

Lookup(ip) ==
    /\ lookup' = [done |-> TRUE, ip |-> ip, res |-> Get(ipMap, ip)]
    /\ UNCHANGED <<configVars, callerVars, exchVars>>

----------------------------------------------------------------------------
(* Specifications *)

\* the goroutines of the Exchange call q
Engine(q) ==
    \/ \E i \in DOMAIN att[q] : AttemptQuery(q, i)
    \/ \E i \in DOMAIN att[q] : AttemptSend(q, i)
    \/ \E i \in DOMAIN att[q] : AttemptSkip(q, i)
    \/ SupervisorClose(q)
    \/ ExchangeRecv(q)
    \/ ExchangeRecvClosed(q)
    \/ ExchangeCtxDone(q)

\* the proxy: queries arrive from the network and are served concurrently.
\* ServeDNS passes context.Background(), which is never done, so the
\* "<-ctx.Done()" case of the receive loop is never ready here.
Next ==
    \/ \E q \in Calls, raddr \in RemoteAddrs, id \in Ids : ServeDNSRecv(q, raddr, id)
    \/ \E q \in Calls : ServeDNSReply(q)
    \/ \E q \in Calls : \E i \in DOMAIN att[q] : AttemptQuery(q, i)
    \/ \E q \in Calls : \E i \in DOMAIN att[q] : AttemptSend(q, i)
    \/ \E q \in Calls : \E i \in DOMAIN att[q] : AttemptSkip(q, i)
    \/ \E q \in Calls : SupervisorClose(q)
    \/ \E q \in Calls : ExchangeRecv(q)
    \/ \E q \in Calls : ExchangeRecvClosed(q)

Spec == Init /\ [][Next]_vars


\* the slot of a call that is made on its own
SingleCall == {1}

\* Exchange as a library function: called on any upstream list, with a
\* context the caller may cancel while the call runs
NextCtx ==
    \/ \E q \in SingleCall, ups \in UpstreamLists, tv \in BOOLEAN : CallExchange(q, ups, tv)
    \/ \E q \in Calls : CancelCaller(q)
    \/ \E q \in Calls : \E i \in DOMAIN att[q] : AttemptQuery(q, i)
    \/ \E q \in Calls : \E i \in DOMAIN att[q] : AttemptSend(q, i)
    \/ \E q \in Calls : \E i \in DOMAIN att[q] : AttemptSkip(q, i)
    \/ \E q \in Calls : SupervisorClose(q)
    \/ \E q \in Calls : ExchangeRecv(q)
    \/ \E q \in Calls : ExchangeRecvClosed(q)
    \/ \E q \in Calls : ExchangeCtxDone(q)

SpecCtx == Init /\ [][NextCtx]_vars

\* the device index built from any generated device list, and looked up
InitIndex ==
    /\ cfg \in GenConfigs
    /\ ipMap = NewManager(cfg)
    /\ client = NewClient
    /\ CallsInit

NextIndex == \E ip \in LookupIPs : Lookup(ip)

SpecIndex == InitIndex /\ [][NextIndex]_vars

\* one inbound query served on its own
NextQuery ==
    \/ \E q \in SingleCall, raddr \in RemoteAddrs, id \in Ids : ServeDNSRecv(q, raddr, id)
    \/ \E q \in Calls : ServeDNSReply(q)
    \/ \E q \in Calls : \E i \in DOMAIN att[q] : AttemptQuery(q, i)
    \/ \E q \in Calls : \E i \in DOMAIN att[q] : AttemptSend(q, i)
    \/ \E q \in Calls : \E i \in DOMAIN att[q] : AttemptSkip(q, i)
    \/ \E q \in Calls : SupervisorClose(q)
    \/ \E q \in Calls : ExchangeRecv(q)
    \/ \E q \in Calls : ExchangeRecvClosed(q)

\* the steps the goroutines of the proxy take on their own
Progress == \E q \in Calls : Engine(q) \/ ServeDNSReply(q)

\* Some goroutine that can take a step eventually takes one (the Go
\* scheduler runs every runnable goroutine), and every adapter call returns
\* (its 5 second timeout).
FairSpecQuery == Init /\ [][NextQuery]_vars /\ WF_vars(Progress)

FairSpecCtx == SpecCtx /\ WF_vars(Progress)


----------------------------------------------------------------------------
(* Properties of Exchange *)

\* an attempt result that is a success: a message and no error
Successful(res) == res.msg.present /\ ~res.err.present

\* the adapter of attempt i of call q has returned
Finished(q, i) == att[q][i].pc # "query"

\* Exchange was called on a non-empty list and has returned
ReturnedFromRace(q) == xstate[q] = "returned" /\ Len(xargs[q].upstreams) > 0

\* C1: a call on a non-empty list whose caller did not cancel returns a
\* failure only when every attempt has finished and none succeeded (so never
\* when some attempt succeeds, early or late), and a response it returns is
\* the message of one of its successful attempts, with no error.
C1_FirstSuccessWins ==
    \A q \in Calls :
        (ReturnedFromRace(q) /\ ~parentDone[q]) =>
            /\ ret[q].err.present =>
                  \A i \in DOMAIN att[q] : Finished(q, i) /\ ~Successful(att[q][i].res)
            /\ ~ret[q].err.present =>
                  /\ ret[q].msg.present
                  /\ \E i \in DOMAIN att[q] :
                        /\ Finished(q, i)
                        /\ Successful(att[q][i].res)
                        /\ att[q][i].res.msg = ret[q].msg

\* a failing attempt was received before the success that was returned
C1_Witness ==
    \E q \in Calls :
        /\ ReturnedFromRace(q)
        /\ ~parentDone[q]
        /\ ~ret[q].err.present
        /\ Len(observed[q]) = 2
        /\ ~Successful(observed[q][1])
        /\ observed[q][2].msg = ret[q].msg

\* C2: every message written to the client carries the Id of the inbound
\* query, whether it is an upstream's response or the SERVFAIL reply.
C2_ReplyIdIsQueryId ==
    \A q \in Calls :
        \A k \in 1..Len(written[q]) : written[q][k].Id = query[q].Id

\* one query answered with a response whose upstream Id differed, another
\* answered with SERVFAIL
C2_Witness ==
    /\ \E q \in Calls :
          /\ pc[q] = "responded"
          /\ ~ret[q].err.present
          /\ ret[q].msg.Id # query[q].Id
          /\ written[q][1].Rcode = "NOERROR"
    /\ \E q \in Calls :
          /\ pc[q] = "responded"
          /\ ret[q].err.present
          /\ query[q].Id # 0
          /\ written[q][1].Rcode = "SERVFAIL"

\* the last error among the results rs, the generic error when none has one
RECURSIVE LastErrorOf(_)
LastErrorOf(rs) ==
    IF Len(rs) = 0 THEN ErrAllFailed
    ELSE IF rs[Len(rs)].err.present THEN rs[Len(rs)].err
    ELSE LastErrorOf(SubSeq(rs, 1, Len(rs) - 1))

\* every attempt of call q has finished and none succeeded
AllAttemptsFailed(q) ==
    \A i \in DOMAIN att[q] : Finished(q, i) /\ ~Successful(att[q][i].res)

\* Exchange returned the all-upstreams-failed outcome: no response, and the
\* last error the receive loop observed (the generic error if it saw none)
ReturnedAllFailed(q) ==
    /\ ~ret[q].msg.present
    /\ ret[q].err.present
    /\ ret[q].err.kind \in {"attempt", "all upstreams failed"}
    /\ ret[q].err = LastErrorOf(observed[q])

\* C3 as stated: whenever every attempt of a call has failed, the call
\* returns the all-upstreams-failed outcome.
C3_AsStated ==
    \A q \in Calls :
        (ReturnedFromRace(q) /\ AllAttemptsFailed(q)) => ReturnedAllFailed(q)

\* C3, amended: the same when the caller's context was not cancelled during
\* the call; the receive loop has then observed the result of every attempt.
C3_AllFailed ==
    \A q \in Calls :
        (ReturnedFromRace(q) /\ AllAttemptsFailed(q) /\ ~parentDone[q]) =>
            /\ ReturnedAllFailed(q)
            /\ Len(observed[q]) = Len(xargs[q].upstreams)

\* two attempts failed with different errors and the call returned the
\* error of the one received last
C3_Witness ==
    \E q \in Calls :
        /\ ReturnedFromRace(q)
        /\ ~parentDone[q]
        /\ Len(observed[q]) = 2
        /\ observed[q][1].err.present
        /\ observed[q][2].err.present
        /\ observed[q][1].err # observed[q][2].err
        /\ ret[q].err = observed[q][2].err

\* C4: a call on an empty list has returned the no-upstreams error as soon
\* as it is made: no response, no attempt goroutine, no supervisor, no
\* adapter call, no channel activity.
C4_NoUpstreams ==
    \A q \in Calls :
        (xstate[q] # "none" /\ Len(xargs[q].upstreams) = 0) =>
            /\ xstate[q] = "returned"
            /\ ret[q] = Result(NoMsg, ErrNoUpstreams)
            /\ att[q] = << >>
            /\ sup[q] = "none"
            /\ resultChan[q] = << >>
            /\ ~closed[q]
            /\ observed[q] = << >>

\* a direct caller passed the empty list and got the error
C4_Witness ==
    \E q \in Calls :
        /\ pc[q] = "called"
        /\ xargs[q].upstreams = << >>
        /\ ret[q].err = ErrNoUpstreams


\* every goroutine of call q has terminated
AllTerminated(q) ==
    /\ \A i \in DOMAIN att[q] : att[q][i].pc = "exited"
    /\ sup[q] = "closed"

\* C5: whenever Exchange has returned from a race its context is cancelled,
\* and from then on every attempt goroutine and the supervisor eventually
\* terminate: none stays blocked on delivering its result.
C5_CancelAndTerminate ==
    /\ [](\A q \in Calls : ReturnedFromRace(q) => ctxDone[q])
    /\ \A q \in Calls : ReturnedFromRace(q) ~> AllTerminated(q)

\* Exchange returned while an attempt was still running; the attempt later
\* skipped its delivery and everything terminated
C5_Witness ==
    \E q \in Calls :
        /\ ReturnedFromRace(q)
        /\ AllTerminated(q)
        /\ \E i \in DOMAIN att[q] : ~att[q][i].sent
        /\ ~parentDone[q]

\* C6 as stated: a call whose caller's context was done before any attempt
\* had finished returns the context's error and no response.
C6_AsStated ==
    \A q \in Calls :
        (xstate[q] = "returned" /\ earlyCancel[q]) => ret[q] = Result(NoMsg, ErrCtx)

----------------------------------------------------------------------------
(* Properties of the router and the device index *)

\* the IP texts and IP values of the model, with their canonical strings
\* (the empty string for a text that does not parse)
IPTexts == IPPool \cup {IP_2222, IP_3333, IP_V6Lower, IP_V6Upper}
CanonOfText ==
    [s \in IPTexts |-> IF ParseIP(s) = NilIP THEN << >> ELSE IPString(ParseIP(s))]
IPValues == LookupIPs \cup {ParseIP(s) : s \in IPTexts}
CanonOfIP == [ip \in IPValues |-> IPString(ip)]

\* the configured device d declares an IP text that parses, to the same
\* canonical string as ip
Declares(d, ip) ==
    \E j \in 1..Len(d.IPs) :
        /\ CanonOfText[d.IPs[j]] # << >>
        /\ CanonOfText[d.IPs[j]] = CanonOfIP[ip]

\* the policy of the last configured device declaring ip, none if there is
\* no such device or ip is nil
PolicyFor(devices, ip) ==
    IF ip = NilIP \/ ~\E k \in 1..Len(devices) : Declares(devices[k], ip)
    THEN NoDevice
    ELSE LET k == CHOOSE k \in 1..Len(devices) :
                    /\ Declares(devices[k], ip)
                    /\ \A l \in (k + 1)..Len(devices) : ~Declares(devices[l], ip)
         IN  [ptr |-> k,
              Name |-> devices[k].Name,
              Upstreams |-> devices[k].Upstreams,
              TLSVerify |-> devices[k].TLSVerify \in {"absent", "true"}]

\* a reply to the query of call q: the response of one of the call's
\* successful attempts, or a SERVFAIL built by the router
IsUpstreamAnswer(q, m) ==
    \E i \in DOMAIN att[q] :
        /\ Finished(q, i)
        /\ Successful(att[q][i].res)
        /\ m = [att[q][i].res.msg EXCEPT !.Id = query[q].Id]
IsServFail(m) == m.present /\ m.Rcode = "SERVFAIL" /\ m.from = <<0, 0>>

\* the host of each remote address, when it can be extracted
HostOf == [ra \in RemoteAddrs |-> SplitHostPort(ra)]
ClientIPOf == [ra \in RemoteAddrs |-> ParseIP(HostOf[ra].host)]

\* the client address of call q's query could be extracted
AddressExtracted(q) == pc[q] # "idle" /\ ~HostOf[query[q].raddr].err

\* what C7 says of the current state of call q
AnsweredOnce(q) ==
    /\ pc[q] = "dropped" <=> (pc[q] # "idle" /\ HostOf[query[q].raddr].err)
    /\ AddressExtracted(q) => pc[q] \in {"racing", "responded"}
    /\ Len(written[q]) = (IF pc[q] = "responded" THEN 1 ELSE 0)
    /\ pc[q] = "responded" =>
          /\ IsUpstreamAnswer(q, written[q][1]) \/ IsServFail(written[q][1])
          /\ AllAttemptsFailed(q) => IsServFail(written[q][1])

\* C7: a query whose client address can be extracted is eventually answered
\* with exactly one message, an upstream's answer or SERVFAIL (SERVFAIL when
\* all upstreams failed); only a query whose address cannot be extracted
\* ends without a reply.
C7_EveryQueryAnswered ==
    /\ [](\A q \in Calls : AnsweredOnce(q))
    /\ \A q \in Calls : AddressExtracted(q) ~> pc[q] = "responded"

\* both upstreams of a query failed and the client got SERVFAIL
C7_Witness ==
    \E q \in Calls :
        /\ pc[q] = "responded"
        /\ Len(att[q]) = 2
        /\ AllAttemptsFailed(q)
        /\ IsServFail(written[q][1])

\* C8: Get returns the policy of the last configured device that declares a
\* parsable IP with the same canonical string, none for the nil IP or an
\* undeclared one; an unparsable IP text does not hide the device's others.
C8_IndexLastWins ==
    lookup.done => lookup.res = PolicyFor(cfg.Devices, lookup.ip)

\* two devices declare the address in different spellings, the second one
\* after an unparsable text, and the lookup returned the second
C8_Witness ==
    /\ lookup.done
    /\ Len(cfg.Devices) = 2
    /\ cfg.Devices[1].IPs = <<IP_Mapped1111>>
    /\ cfg.Devices[2].IPs = <<IP_LeadingZero, IP_1111>>
    /\ cfg.Devices[1].TLSVerify # cfg.Devices[2].TLSVerify
    /\ lookup.ip = <<1, 1, 1, 1>>
    /\ lookup.res.ptr = 2

\* the upstreams and flag ServeDNS must pass for call q's query
ExpectedArgs(q) ==
    LET d == PolicyFor(cfg.Devices, ClientIPOf[query[q].raddr])
    IN  IF d # NoDevice
        THEN [upstreams |-> d.Upstreams, tlsVerify |-> d.TLSVerify]
        ELSE [upstreams |-> cfg.Upstreams, tlsVerify |-> TRUE]

\* C9: Exchange gets the matched device's upstream list and resolved
\* tlsVerify, or the global list with tlsVerify = true when no device
\* matches, and there is one attempt per entry of that list, on that entry.
C9_RoutedArgs ==
    \A q \in Calls :
        pc[q] \in {"racing", "responded"} =>
            /\ xargs[q] = ExpectedArgs(q)
            /\ Len(att[q]) = Len(xargs[q].upstreams)
            /\ \A i \in DOMAIN att[q] : att[q][i].u = xargs[q].upstreams[i]

\* one query routed to a device with tls-verify false, another to the
\* global list, both with attempts made
C9_Witness ==
    /\ \E q \in Calls :
          /\ pc[q] \in {"racing", "responded"}
          /\ PolicyFor(cfg.Devices, ClientIPOf[query[q].raddr]).ptr = 2
          /\ ~xargs[q].tlsVerify
          /\ \E i \in DOMAIN att[q] : att[q][i].calls = 1
    /\ \E q \in Calls :
          /\ pc[q] \in {"racing", "responded"}
          /\ xargs[q].upstreams = cfg.Upstreams
          /\ \E i \in DOMAIN att[q] : att[q][i].calls = 1

\* the identifier carries a port: it splits into a host and a port
CarriesPort(u) == ~SplitHostPort(u).err

\* C10 as stated: the classic adapter is called with ":53" appended to an
\* identifier that lacks a port and with an identifier that carries a port
\* unchanged, whatever the form of the host.
C10_AsStated ==
    \A q \in Calls :
        \A i \in DOMAIN att[q] :
            att[q][i].adapter = "classic" =>
                att[q][i].target = (IF CarriesPort(att[q][i].u)
                                    THEN att[q][i].u
                                    ELSE att[q][i].u \o S_Port53)

----------------------------------------------------------------------------
(* Properties of the race *)

\* attempt i of call q is still in flight: its adapter has not returned
InFlight(q, i) == att[q][i].pc = "query"

\* C11: while the caller's context is not cancelled, a call that has
\* returned a failure has no attempt in flight: every attempt goroutine has
\* exited, none succeeded, the supervisor has closed the channel, and the
\* failure is an attempt's error or the generic one.  A call that has
\* received a failed result while an attempt is in flight is still running.
C11_FailureOnlyAfterAll ==
    \A q \in Calls :
        /\ (ReturnedFromRace(q) /\ ~parentDone[q] /\ ret[q].err.present) =>
              /\ closed[q]
              /\ \A i \in DOMAIN att[q] :
                    /\ ~InFlight(q, i)
                    /\ att[q][i].pc = "exited"
                    /\ ~Successful(att[q][i].res)
              /\ ret[q].err.kind \in {"attempt", "all upstreams failed"}
        /\ (xstate[q] # "none" /\ ~parentDone[q] /\ Len(observed[q]) > 0
              /\ (\A k \in 1..Len(observed[q]) : ~Successful(observed[q][k]))
              /\ (\E i \in DOMAIN att[q] : InFlight(q, i))) =>
              xstate[q] = "running"

\* the failure of a DoH attempt has been received, its error recorded, and
\* the call goes on waiting for the attempt that is still in flight
C11_Witness ==
    \E q \in Calls :
        /\ xstate[q] = "running"
        /\ ~parentDone[q]
        /\ Len(observed[q]) = 1
        /\ observed[q][1].err.present
        /\ lastErr[q] = observed[q][1].err
        /\ \E i \in DOMAIN att[q] :
              /\ att[q][i].adapter = "doh"
              /\ att[q][i].res = observed[q][1]
        /\ \E i \in DOMAIN att[q] : InFlight(q, i)

\* resultChan of call q is closed, by the supervisor, with every attempt
\* goroutine exited
ClosedAfterAll(q) ==
    /\ closed[q] <=> sup[q] = "closed"
    /\ closed[q] => \A i \in DOMAIN att[q] : att[q][i].pc = "exited"

\* C12: resultChan is closed by the supervisor only, after every attempt
\* goroutine has exited, and never twice; no goroutine ever sends on (or
\* closes) the closed channel; and in every call on a non-empty list the
\* supervisor does eventually close it, whether Exchange returned early, late
\* or on cancellation.
C12_CloseOnceAfterAll ==
    /\ [](~panicked /\ \A q \in Calls : ClosedAfterAll(q))
    /\ [][\A q \in Calls : closed[q] => closed'[q]]_vars
    /\ \A q \in Calls :
          (xstate[q] # "none" /\ Len(xargs[q].upstreams) > 0) ~> closed[q]

\* the caller cancelled and Exchange returned the context's error; one
\* attempt still delivered into the buffer, the other skipped its delivery,
\* and then the supervisor closed the channel with the result unreceived
C12_Witness ==
    \E q \in Calls :
        /\ ReturnedFromRace(q)
        /\ parentDone[q]
        /\ ret[q].err = ErrCtx
        /\ closed[q]
        /\ Len(resultChan[q]) = 1
        /\ \E i \in DOMAIN att[q] : att[q][i].sent
        /\ \E i \in DOMAIN att[q] : ~att[q][i].sent
        /\ ~panicked

\* C13 as stated: when the call's cancellation signal fired while every
\* attempt was still in flight, so that every attempt finishes after it, no
\* attempt places its result into resultChan.
C13_AsStated ==
    \A q \in Calls :
        earlyCancel[q] =>
            /\ \A i \in DOMAIN att[q] : ~att[q][i].sent
            /\ resultChan[q] = << >>
            /\ observed[q] = << >>

\* the attempts of call q that have delivered their result
Delivered(q) == {i \in DOMAIN att[q] : att[q][i].sent}

\* one attempt per entry of the list, each with at most one adapter call
\* (exactly one once its adapter has returned) and at most one delivery
OneAttemptPerEntry(q) ==
    /\ Len(att[q]) = Len(xargs[q].upstreams)
    /\ \A i \in DOMAIN att[q] :
          /\ att[q][i].u = xargs[q].upstreams[i]
          /\ att[q][i].calls = (IF InFlight(q, i) THEN 0 ELSE 1)
          /\ att[q][i].sent => att[q][i].pc = "exited"
    /\ Len(resultChan[q]) + Len(observed[q]) = Cardinality(Delivered(q))

\* the adapter invocations made so far in call q
RECURSIVE Invocations(_, _)
Invocations(q, n) ==
    IF n = 0 THEN 0 ELSE Invocations(q, n - 1) + att[q][n].calls

\* C14: every call has one attempt per entry of its list, on that entry; an
\* attempt calls its adapter once, never again after a failure, and delivers
\* at most one result; and the adapter invocations of a call eventually
\* number the length of its list.
C14_OneAttemptOneCall ==
    /\ [](\A q \in Calls : OneAttemptPerEntry(q))
    /\ \A q \in Calls :
          xstate[q] # "none" ~>
              Invocations(q, Len(att[q])) = Len(xargs[q].upstreams)

\* a list naming the same upstream twice: two attempts, both failed, each
\* made one adapter call and one delivery, and the call returned the failure
C14_Witness ==
    \E q \in Calls :
        /\ ReturnedFromRace(q)
        /\ Len(xargs[q].upstreams) = 2
        /\ xargs[q].upstreams[1] = xargs[q].upstreams[2]
        /\ AllAttemptsFailed(q)
        /\ AllTerminated(q)
        /\ Invocations(q, 2) = 2
        /\ Cardinality(Delivered(q)) = 2
        /\ ret[q].err.kind = "attempt"

\* every attempt of call q has finished with a success
AllSucceeded(q) ==
    \A i \in DOMAIN att[q] : Finished(q, i) /\ Successful(att[q][i].res)

\* position p of a two-entry list won a race in which both attempts succeeded
PositionWon(q, p) ==
    /\ xstate[q] = "returned"
    /\ Len(att[q]) = 2
    /\ AllSucceeded(q)
    /\ ret[q].msg = att[q][p].res.msg
    /\ ret[q].msg.from = <<q, p>>

\* C15: the response a call returns is the first success among the results
\* the receive loop received, in the order it received them, whatever the
\* positions of the attempts; a call still running has received no success.
\* (That each position can be the one returned is shown by C15_Witness.)
C15_FirstReceivedSuccessWins ==
    \A q \in Calls :
        /\ (xstate[q] = "returned" /\ ret[q].msg.present) =>
              /\ ~ret[q].err.present
              /\ Len(observed[q]) > 0
              /\ ret[q].msg = observed[q][Len(observed[q])].msg
              /\ Successful(observed[q][Len(observed[q])])
              /\ \A k \in 1..(Len(observed[q]) - 1) : ~Successful(observed[q][k])
        /\ xstate[q] = "running" =>
              \A k \in 1..Len(observed[q]) : ~Successful(observed[q][k])

\* two queries raced the same two upstreams, all four attempts succeeded:
\* one query got the response of the first position, the other the response
\* of the second
C15_Witness ==
    \E q1 \in Calls, q2 \in Calls :
        /\ q1 # q2
        /\ xargs[q1].upstreams = xargs[q2].upstreams
        /\ PositionWon(q1, 1)
        /\ PositionWon(q2, 2)

\* the DoH attempts of call q ran on a client whose verification setting is
\* the call's flag; a classic attempt uses no HTTP client
VerifiedAsAsked(q) ==
    \A i \in DOMAIN att[q] :
        /\ att[q][i].adapter = "doh" => att[q][i].insecure = ~xargs[q].tlsVerify
        /\ att[q][i].adapter # "doh" => ~att[q][i].insecure

\* C16: however DoH attempts of concurrent calls with different flags
\* interleave, each runs on a client with verification enabled exactly when
\* its call's tlsVerify is true, and the shared clients keep the settings
\* NewClient gave them; the earlier variant of queryDoH, which clones the
\* transport, also uses a client matching the flag and leaves the shared one
\* as it was.
C16_ClientMatchesFlag ==
    /\ \A q \in Calls : VerifiedAsAsked(q)
    /\ client = NewClient
    /\ ~client.httpClientVerify.InsecureSkipVerify
    /\ client.httpClientInsecure.InsecureSkipVerify
    /\ \A tv \in BOOLEAN :
          /\ SelectClientCloning(NewClientCloning, tv).used.InsecureSkipVerify = ~tv
          /\ SelectClientCloning(NewClientCloning, tv).shared = NewClientCloning

\* two calls are running at once, one with tlsVerify = true and one with
\* tlsVerify = false, each with a DoH attempt made on the matching client
C16_Witness ==
    \E q1 \in Calls, q2 \in Calls :
        /\ xstate[q1] = "running"
        /\ xstate[q2] = "running"
        /\ xargs[q1].tlsVerify
        /\ ~xargs[q2].tlsVerify
        /\ \E i \in DOMAIN att[q1] :
              att[q1][i].adapter = "doh" /\ ~att[q1][i].insecure
        /\ \E i \in DOMAIN att[q2] :
              att[q2][i].adapter = "doh" /\ att[q2][i].insecure

\* a pair (response, error) with exactly one of the two non-null
ExactlyOne(r) == r.msg.present # r.err.present

\* C18: whatever Exchange returns, on the empty list, on a success, on the
\* closed channel or on a done context, is a response with a nil error or a
\* nil response with an error; a call that has not returned has returned
\* nothing.
C18_ResponseXorError ==
    \A q \in Calls :
        /\ xstate[q] = "returned" => ExactlyOne(ret[q])
        /\ xstate[q] # "returned" => ret[q] = NoResult

\* the only attempt finished with neither a message nor an error; the loop
\* received that result and the call returned the generic error
C18_Witness ==
    \E q \in Calls :
        /\ ReturnedFromRace(q)
        /\ Len(att[q]) = 1
        /\ att[q][1].res = NoResult
        /\ observed[q] = <<NoResult>>
        /\ ret[q] = Result(NoMsg, ErrAllFailed)

\* a result or message that, if it carries a message, carries one produced
\* by an attempt of call q
OwnMsg(q, m) ==
    m.present =>
        /\ m.from[1] = q
        /\ m.from[2] \in DOMAIN att[q]
        /\ att[q][m.from[2]].res.msg = m
        /\ att[q][m.from[2]].u = xargs[q].upstreams[m.from[2]]

\* call q is touched by nothing but itself
Isolated(q) ==
    /\ ctxDone[q] => xstate[q] = "returned"
    /\ \A i \in DOMAIN att[q] :
          (att[q][i].pc = "exited" /\ ~att[q][i].sent) => xstate[q] = "returned"
    /\ \A k \in 1..Len(resultChan[q]) : OwnMsg(q, resultChan[q][k].msg)
    /\ \A k \in 1..Len(observed[q]) : OwnMsg(q, observed[q][k].msg)
    /\ OwnMsg(q, ret[q].msg)
    /\ \A k \in 1..Len(written[q]) :
          \/ IsServFail(written[q][k])
          \/ OwnMsg(q, [written[q][k] EXCEPT !.Id = ret[q].msg.Id])

\* C19: with queries served concurrently, a call's context is done only
\* once that call itself has returned, an attempt skips its delivery only
\* after its own call has returned, every result in a call's channel and
\* every response a call returns was produced by one of that call's own
\* attempts on an entry of its own list, and what the client is sent is
\* that response or a SERVFAIL.
C19_CallsIsolated == \A q \in Calls : Isolated(q)

\* one query has been answered and its call's context is cancelled, while
\* the other query's call, on the same list, is still running: its context
\* is not done and both its attempts have delivered
C19_Witness ==
    \E q1 \in Calls, q2 \in Calls :
        /\ q1 # q2
        /\ xargs[q1].upstreams = xargs[q2].upstreams
        /\ pc[q1] = "responded"
        /\ ret[q1].msg.present
        /\ ctxDone[q1]
        /\ xstate[q2] = "running"
        /\ ~ctxDone[q2]
        /\ Len(att[q2]) = 2
        /\ \A i \in DOMAIN att[q2] : att[q2][i].sent
        /\ Len(resultChan[q2]) = 2

\* per configuration, the remote addresses whose client IP matches a device
\* with an empty upstream list
EmptyListClients ==
    [c \in Configs |->
        {ra \in RemoteAddrs :
            /\ ~HostOf[ra].err
            /\ PolicyFor(c.Devices, ClientIPOf[ra]) # NoDevice
            /\ PolicyFor(c.Devices, ClientIPOf[ra]).Upstreams = << >>}]

\* the query of call q comes from a client of a device without upstreams
FromEmptyListClient(q) ==
    pc[q] # "idle" /\ query[q].raddr \in EmptyListClients[cfg]

\* the SERVFAIL reply to the query of call q has been written, and nothing else
ServFailWritten(q) ==
    /\ pc[q] = "responded"
    /\ Len(written[q]) = 1
    /\ IsServFail(written[q][1])
    /\ written[q][1].Id = query[q].Id

\* C20: a query from a client whose device has an empty upstream list is
\* handed to Exchange with that empty list, not the global one; Exchange has
\* returned the no-upstreams error with no attempt started; and the client
\* is eventually sent one SERVFAIL reply carrying the query's Id, and
\* nothing else.
C20_EmptyDeviceListServFail ==
    /\ [](\A q \in Calls : FromEmptyListClient(q) =>
            /\ pc[q] \in {"racing", "responded"}
            /\ xargs[q].upstreams = << >>
            /\ xstate[q] = "returned"
            /\ ret[q] = Result(NoMsg, ErrNoUpstreams)
            /\ att[q] = << >>
            /\ resultChan[q] = << >>
            /\ pc[q] = "responded" => ServFailWritten(q))
    /\ \A q \in Calls : FromEmptyListClient(q) ~> ServFailWritten(q)

\* the client of the device without upstreams asked with Id 1 and got
\* SERVFAIL with Id 1, although the global list names an upstream
C20_Witness ==
    \E q \in Calls :
        /\ query[q] = [Id |-> 1, raddr |-> RA_2222]
        /\ Get(ipMap, ClientIPOf[RA_2222]).Name = "c"
        /\ cfg.Upstreams # << >>
        /\ ServFailWritten(q)
        /\ att[q] = << >>

----------------------------------------------------------------------------
(* Frame properties *)

\* the lists of the configuration: the global one and each device's
ConfiguredLists ==
    {cfg.Upstreams} \cup {cfg.Devices[k].Upstreams : k \in DOMAIN cfg.Devices}

\* the list call q was given is still one of the configuration's lists, and
\* its entries are the identifiers its attempts were started on
ListIntact(q) ==
    /\ pc[q] \in {"racing", "responded"} => xargs[q].upstreams \in ConfiguredLists
    /\ \A i \in DOMAIN att[q] : att[q][i].u = xargs[q].upstreams[i]

\* C17: no step of any query changes the configuration (the global list,
\* the devices' lists and flags) or the device index, and no step of an
\* Exchange call changes the list or the flag the call was given, also not
\* the step in which an attempt appends ":53" to its identifier.
C17_InputsUnchanged ==
    /\ [](\A q \in Calls : ListIntact(q))
    /\ [][/\ cfg' = cfg
          /\ ipMap' = ipMap
          /\ \A q \in Calls : xstate[q] # "none" => xargs'[q] = xargs[q]]_vars

\* two queries were served from the global list one "9.9.9.9"; both
\* attempts dialed "9.9.9.9:53", and the list still reads "9.9.9.9"
C17_Witness ==
    \E q1 \in Calls, q2 \in Calls :
        /\ q1 # q2
        /\ pc[q1] = "responded"
        /\ pc[q2] = "responded"
        /\ \A q \in {q1, q2} :
              /\ xargs[q].upstreams = cfg.Upstreams
              /\ att[q][1].target = U_9999 \o S_Port53
        /\ cfg.Upstreams = <<U_9999>>


====
